---- MODULE Spec2Model ----
(***************************************************************************)
(* A model of the currency calculator of streamlit_app.py: the restricted  *)
(* expression evaluator (safe_eval), the canonical string of a result      *)
(* (str of a Python number), the rate table (fetch_rates and the fallback  *)
(* table) and the button handlers that act on the session state.           *)
(*                                                                         *)
(* Strings are sequences of one-character strings.  Python ints are exact. *)
(* Python floats are modelled as decimal floating-point numbers with PREC  *)
(* significant digits, rounded half-to-even, with signed zero, inf and     *)
(* nan: arithmetic rounds as IEEE arithmetic does, and str() of a float    *)
(* is its shortest round-tripping decimal string, as in Python.            *)
(***************************************************************************)
EXTENDS Integers, Sequences, FiniteSets, TLC

(* ------------------------------ bounds --------------------------------- *)

\* significant decimal digits a float holds (IEEE double: 53 bits)
PREC == 3
\* how many callbacks run in a session (Spec)
MaxSteps == 5
\* how long an input string of the evaluator is (SpecEval)
MaxLen == 4
\* how many calls are made on an input string (SpecEval)
MaxEvalSteps == 2

(* --------------------------- Python numbers ---------------------------- *)

RECURSIVE Pow10(_)
Pow10(n) == IF n <= 0 THEN 1 ELSE 10 * Pow10(n - 1)

RECURSIVE NumDigits(_)
NumDigits(n) == IF n < 10 THEN 1 ELSE 1 + NumDigits(n \div 10)

\* One record shape for every Python number:
\*   t : "int" | "bool" | "float"      the Python type
\*   k : "fin" | "inf" | "nan"         the kind of float (ints are "fin")
\*   neg, m, e : the value is (-1)^neg * m * 10^e   (ints: e = 0)
Num(t, k, neg, m, e) == [t |-> t, k |-> k, neg |-> neg, m |-> m, e |-> e]

MkInt(n) == Num("int", "fin", n < 0, IF n < 0 THEN -n ELSE n, 0)
MkBool(b) == Num("bool", "fin", FALSE, IF b THEN 1 ELSE 0, 0)
IntOf(v) == IF v.neg THEN -v.m ELSE v.m

Inf(neg) == Num("float", "inf", neg, 0, 0)
NaN == Num("float", "nan", FALSE, 0, 0)
FZero(neg) == Num("float", "fin", neg, 0, 0)

\* the float (-1)^neg * n * 10^e with n's trailing zeros moved into e
\* (an IEEE double overflows to inf from about 1.8e308 and underflows to zero
\* below about 5e-324)
RECURSIVE Norm(_, _, _)
Norm(neg, n, e) ==
    IF n = 0 THEN FZero(neg)
    ELSE IF n % 10 = 0 THEN Norm(neg, n \div 10, e + 1)
    ELSE IF e + NumDigits(n) > 309 THEN Inf(neg)
    ELSE IF e + NumDigits(n) < -323 THEN FZero(neg)
    ELSE Num("float", "fin", neg, n, e)

\* n * 10^e (plus, when sticky, a nonzero amount below one unit of n) rounded
\* half-to-even to PREC significant digits
RoundDigits(neg, n, e, sticky) ==
    LET k == NumDigits(n) - PREC IN
    IF k <= 0 THEN Norm(neg, n, e)
    ELSE LET q    == n \div Pow10(k)
             r    == n % Pow10(k)
             half == 5 * Pow10(k - 1)
             up   == r > half \/ (r = half /\ (sticky \/ q % 2 = 1))
         IN  Norm(neg, IF up THEN q + 1 ELSE q, e + k)

IsIntLike(v) == v.t \in {"int", "bool"}
IsZero(v) == v.k = "fin" /\ v.m = 0

\* float(v)
ToFloat(v) == IF v.t = "float" THEN v ELSE RoundDigits(v.neg, v.m, 0, FALSE)

\* the exponent of the digit above the leading one
Top(x) == x.e + NumDigits(x.m)

\* x + y for finite floats
FinAdd(x, y) ==
    IF x.m = 0 /\ y.m = 0 THEN FZero(x.neg /\ y.neg)
    ELSE IF x.m = 0 THEN y
    ELSE IF y.m = 0 THEN x
    ELSE IF Top(x) - Top(y) >= PREC + 2 THEN x
    ELSE IF Top(y) - Top(x) >= PREC + 2 THEN y
    ELSE LET e  == IF x.e < y.e THEN x.e ELSE y.e
             a  == x.m * Pow10(x.e - e) * (IF x.neg THEN -1 ELSE 1)
             b  == y.m * Pow10(y.e - e) * (IF y.neg THEN -1 ELSE 1)
             s  == a + b
         IN  IF s = 0 THEN FZero(FALSE)
             ELSE RoundDigits(s < 0, IF s < 0 THEN -s ELSE s, e, FALSE)

FNeg(x) == IF x.k = "nan" THEN x ELSE [x EXCEPT !.neg = ~x.neg]

FAdd(x, y) ==
    IF x.k = "nan" \/ y.k = "nan" THEN NaN
    ELSE IF x.k = "inf" /\ y.k = "inf" THEN (IF x.neg = y.neg THEN x ELSE NaN)
    ELSE IF x.k = "inf" THEN x
    ELSE IF y.k = "inf" THEN y
    ELSE FinAdd(x, y)

FSub(x, y) == FAdd(x, FNeg(y))

FMul(x, y) ==
    LET neg == (x.neg /= y.neg) IN
    IF x.k = "nan" \/ y.k = "nan" THEN NaN
    ELSE IF x.k = "inf" \/ y.k = "inf"
         THEN (IF IsZero(x) \/ IsZero(y) THEN NaN ELSE Inf(neg))
    ELSE RoundDigits(neg, x.m * y.m, x.e + y.e, FALSE)

\* the smallest s with a * 10^s >= b * 10^PREC
RECURSIVE DivShift(_, _, _)
DivShift(a, b, s) ==
    IF a * Pow10(s) >= b * Pow10(PREC) THEN s ELSE DivShift(a, b, s + 1)

\* x / y for floats, y not zero
FDiv(x, y) ==
    LET neg == (x.neg /= y.neg) IN
    IF x.k = "nan" \/ y.k = "nan" THEN NaN
    ELSE IF x.k = "inf" THEN (IF y.k = "inf" THEN NaN ELSE Inf(neg))
    ELSE IF y.k = "inf" THEN FZero(neg)
    ELSE IF x.m = 0 THEN FZero(neg)
    ELSE LET s == DivShift(x.m, y.m, 0)
             a == x.m * Pow10(s)
         IN  RoundDigits(neg, a \div y.m, x.e - s - y.e, a % y.m /= 0)

(* ------------------------- str() of a number ---------------------------- *)

DigitChars == <<"0", "1", "2", "3", "4", "5", "6", "7", "8", "9">>
Digits == {DigitChars[i] : i \in 1..10}
DigitVal(c) == CHOOSE d \in 0..9 : DigitChars[d + 1] = c

RECURSIVE DigitsOf(_)
DigitsOf(n) ==
    IF n < 10 THEN <<DigitChars[n + 1]>>
    ELSE DigitsOf(n \div 10) \o <<DigitChars[(n % 10) + 1]>>

RECURSIVE Zeros(_)
Zeros(n) == IF n <= 0 THEN <<>> ELSE <<"0">> \o Zeros(n - 1)

Sign(neg) == IF neg THEN <<"-">> ELSE <<>>

\* repr of a float: the shortest digits that round-trip, in exponent notation
\* when the decimal point would lie more than 16 digits right of the first
\* digit or 4 or more places left of it
StrFloat(x) ==
    IF x.k = "nan" THEN <<"n", "a", "n">>
    ELSE IF x.k = "inf" THEN Sign(x.neg) \o <<"i", "n", "f">>
    ELSE IF x.m = 0 THEN Sign(x.neg) \o <<"0", ".", "0">>
    ELSE LET ds    == DigitsOf(x.m)
             k     == Len(ds)
             decpt == x.e + k
             ex    == decpt - 1
             exds  == DigitsOf(IF ex < 0 THEN -ex ELSE ex)
         IN  Sign(x.neg) \o
             (IF decpt > 16 \/ decpt <= -4
              THEN <<ds[1]>>
                   \o (IF k > 1 THEN <<".">> \o SubSeq(ds, 2, k) ELSE <<>>)
                   \o <<"e", IF ex < 0 THEN "-" ELSE "+">>
                   \o (IF Len(exds) < 2 THEN <<"0">> ELSE <<>>) \o exds
              ELSE IF decpt <= 0
              THEN <<"0", ".">> \o Zeros(-decpt) \o ds
              ELSE IF decpt >= k
              THEN ds \o Zeros(decpt - k) \o <<".", "0">>
              ELSE SubSeq(ds, 1, decpt) \o <<".">> \o SubSeq(ds, decpt + 1, k))

\* str(v) for a Python int, bool or float
PyStr(v) ==
    IF v.t = "float" THEN StrFloat(v)
    ELSE IF v.t = "bool"
    THEN (IF v.m = 1 THEN <<"T", "r", "u", "e">> ELSE <<"F", "a", "l", "s", "e">>)
    ELSE Sign(v.neg) \o DigitsOf(v.m)

(* ----------------- ast.parse(expr, mode='eval'): tokens ------------------ *)

\* The characters of the model: the calculator's keys, ")" and the letters
\* that str() of a float ("inf", "nan", "1e+16") and the constant True hold.
Letters == {"a", "e", "f", "i", "n", "r", "u", "T"}
OpChars == {"+", "-", "*", "/", "(", ")", "."}
TrueWord == <<"T", "r", "u", "e">>
\* the Python keywords these letters spell; in the strings of this model a
\* keyword stands where no expression may continue, which is a syntax error
Keywords == {<<"i", "n">>, <<"i", "f">>}

IsDigit(c) == c \in Digits
IsLetter(c) == c \in Letters
\* the character at i, "" past the end
At(s, i) == IF i >= 1 /\ i <= Len(s) THEN s[i] ELSE ""

RECURSIVE SpanDigits(_, _)
SpanDigits(s, i) == IF IsDigit(At(s, i)) THEN SpanDigits(s, i + 1) ELSE i

RECURSIVE SpanWord(_, _)
SpanWord(s, i) ==
    IF IsLetter(At(s, i)) \/ IsDigit(At(s, i)) THEN SpanWord(s, i + 1) ELSE i

RECURSIVE DigitsToNat(_)
DigitsToNat(ds) ==
    IF ds = <<>> THEN 0
    ELSE 10 * DigitsToNat(SubSeq(ds, 1, Len(ds) - 1)) + DigitVal(ds[Len(ds)])

\* the digits ds[i..] read into n, keeping PREC + 2 of them: r.n the digits
\* kept, r.dropped how many were not, r.sticky whether one of those was not 0
RECURSIVE ReadDigits(_, _, _, _, _)
ReadDigits(ds, i, n, dropped, sticky) ==
    IF i > Len(ds) THEN [n |-> n, dropped |-> dropped, sticky |-> sticky]
    ELSE IF n < Pow10(PREC + 1)
    THEN ReadDigits(ds, i + 1, 10 * n + DigitVal(ds[i]), dropped, sticky)
    ELSE ReadDigits(ds, i + 1, n, dropped + 1, sticky \/ ds[i] /= "0")

\* the float nearest to (the digits ds) * 10^e
DigitsToFloat(ds, e) ==
    LET r == ReadDigits(ds, 1, 0, 0, FALSE)
    IN  RoundDigits(FALSE, r.n, e + r.dropped, r.sticky)

Tok(ty, s, v) == [ty |-> ty, s |-> s, v |-> v]
Lexed(ok, end, tok) == [ok |-> ok, end |-> end, tok |-> tok]

\* A number literal starting at i: digits, an optional "." and fraction, an
\* optional exponent.  Without "." and exponent it is an int, which may not
\* have a leading zero unless it is all zeros; a letter may not follow it.
LexNumber(s, i) ==
    LET j      == SpanDigits(s, i)
        hasDot == At(s, j) = "."
        k      == IF hasDot THEN SpanDigits(s, j + 1) ELSE j
        hasExp == /\ At(s, k) = "e"
                  /\ \/ IsDigit(At(s, k + 1))
                     \/ At(s, k + 1) \in {"+", "-"} /\ IsDigit(At(s, k + 2))
        x0     == IF IsDigit(At(s, k + 1)) THEN k + 1 ELSE k + 2
        q      == IF hasExp THEN SpanDigits(s, x0) ELSE k
        intds  == SubSeq(s, i, j - 1)
        frds   == IF hasDot THEN SubSeq(s, j + 1, k - 1) ELSE <<>>
        exv    == IF hasExp
                  THEN (IF At(s, k + 1) = "-" THEN -1 ELSE 1)
                       * DigitsToNat(SubSeq(s, x0, q - 1))
                  ELSE 0
        isFloat == hasDot \/ hasExp
        leadingZero == /\ Len(intds) > 1
                       /\ intds[1] = "0"
                       /\ \E p \in 1..Len(intds) : intds[p] /= "0"
    IN  Lexed((isFloat \/ ~leadingZero) /\ ~IsLetter(At(s, q)), q,
              Tok("num", "",
                  IF isFloat THEN DigitsToFloat(intds \o frds, exv - Len(frds))
                  ELSE MkInt(DigitsToNat(intds))))

LexWord(s, i) ==
    LET j == SpanWord(s, i)
        w == SubSeq(s, i, j - 1)
    IN  Lexed(TRUE, j,
              IF w = TrueWord THEN Tok("true", "", MkBool(TRUE))
              ELSE IF w \in Keywords THEN Tok("kw", "", MkInt(0))
              ELSE Tok("name", "", MkInt(0)))

LexOp(s, i) ==
    LET c == s[i] IN
    IF c = "*" /\ At(s, i + 1) = "*" THEN Lexed(TRUE, i + 2, Tok("op", "**", MkInt(0)))
    ELSE IF c = "/" /\ At(s, i + 1) = "/" THEN Lexed(TRUE, i + 2, Tok("op", "//", MkInt(0)))
    ELSE IF c = "." /\ At(s, i + 1) = "." /\ At(s, i + 2) = "."
    THEN Lexed(TRUE, i + 3, Tok("op", "...", MkInt(0)))
    ELSE Lexed(c \in OpChars, i + 1, Tok("op", c, MkInt(0)))

LexOne(s, i) ==
    IF IsDigit(s[i]) \/ (s[i] = "." /\ IsDigit(At(s, i + 1))) THEN LexNumber(s, i)
    ELSE IF IsLetter(s[i]) THEN LexWord(s, i)
    ELSE LexOp(s, i)

\* the tokens of s[i..], or ok = FALSE on a lexical error
RECURSIVE LexFrom(_, _)
LexFrom(s, i) ==
    IF i > Len(s) THEN [ok |-> TRUE, toks |-> <<>>]
    ELSE LET one == LexOne(s, i) IN
         IF ~one.ok THEN [ok |-> FALSE, toks |-> <<>>]
         ELSE LET rest == LexFrom(s, one.end) IN
              IF ~rest.ok THEN rest
              ELSE [ok |-> TRUE, toks |-> <<one.tok>> \o rest.toks]

(* --------------- ast.parse(expr, mode='eval'): the tree ------------------ *)

\* Nodes: <<"const", v>> a Constant holding an int, float or bool,
\* <<"un", op, x>> a UnaryOp, <<"bin", op, l, r>> a BinOp with an operator of
\* ALLOWED_OPERATORS, and <<"bad">> any node _eval rejects without looking
\* into it (Name, Call, Attribute, Tuple, Ellipsis, BinOp with ** or //).
BadNode == <<"bad">>
Parsed(node, pos) == [ok |-> TRUE, node |-> node, pos |-> pos]
NoParse == [ok |-> FALSE, node |-> BadNode, pos |-> 0]
TokIs(ts, i, op) == i <= Len(ts) /\ ts[i].ty = "op" /\ ts[i].s = op

RECURSIVE PSum(_, _)
RECURSIVE PSumLoop(_, _, _)
RECURSIVE PTerm(_, _)
RECURSIVE PTermLoop(_, _, _)
RECURSIVE PFactor(_, _)
RECURSIVE PPower(_, _)
RECURSIVE PTrailers(_, _, _)
RECURSIVE PAtom(_, _)

\* the ")" that closes a parenthesised expression e
PParen(ts, e) ==
    IF e.ok /\ TokIs(ts, e.pos, ")") THEN Parsed(e.node, e.pos + 1) ELSE NoParse

\* atom: NUMBER | NAME | True | '...' | '(' ')' | '(' expression ')'
PAtom(ts, i) ==
    IF i > Len(ts) THEN NoParse
    ELSE IF ts[i].ty \in {"num", "true"} THEN Parsed(<<"const", ts[i].v>>, i + 1)
    ELSE IF ts[i].ty = "name" THEN Parsed(BadNode, i + 1)
    ELSE IF ts[i].ty = "kw" THEN NoParse
    ELSE IF ts[i].s = "..." THEN Parsed(BadNode, i + 1)
    ELSE IF ts[i].s = "("
    THEN IF TokIs(ts, i + 1, ")") THEN Parsed(BadNode, i + 2)
         ELSE PParen(ts, PSum(ts, i + 1))
    ELSE NoParse

\* the ")" that closes a call with the argument a, and what follows it
PCallEnd(ts, a) ==
    IF a.ok /\ TokIs(ts, a.pos, ")")
    THEN PTrailers(ts, BadNode, a.pos + 1) ELSE NoParse

\* primary: atom followed by calls '(' [['*' | '**'] expression] ')' and
\* attribute references '.' NAME
PTrailers(ts, node, i) ==
    IF TokIs(ts, i, "(")
    THEN IF TokIs(ts, i + 1, ")") THEN PTrailers(ts, BadNode, i + 2)
         ELSE PCallEnd(ts, PSum(ts, IF TokIs(ts, i + 1, "*") \/ TokIs(ts, i + 1, "**")
                                    THEN i + 2 ELSE i + 1))
    ELSE IF TokIs(ts, i, ".")
    THEN IF i + 1 <= Len(ts) /\ ts[i + 1].ty = "name"
         THEN PTrailers(ts, BadNode, i + 2) ELSE NoParse
    ELSE Parsed(node, i)

\* the primary that starts with the atom a
PPrimary(ts, a) == IF a.ok THEN PTrailers(ts, a.node, a.pos) ELSE NoParse

\* the power whose exponent is the factor r
PExponent(r) == IF r.ok THEN Parsed(BadNode, r.pos) ELSE NoParse

\* the power that starts with the primary p
PPowerOf(ts, p) ==
    IF p.ok /\ TokIs(ts, p.pos, "**") THEN PExponent(PFactor(ts, p.pos + 1))
    ELSE p

\* power: primary ['**' factor]
PPower(ts, i) == PPowerOf(ts, PPrimary(ts, PAtom(ts, i)))

\* the sign ts[i] applied to the factor r
PSigned(ts, i, r) ==
    IF r.ok THEN Parsed(<<"un", ts[i].s, r.node>>, r.pos) ELSE NoParse

\* factor: ('+' | '-') factor | power
PFactor(ts, i) ==
    IF TokIs(ts, i, "+") \/ TokIs(ts, i, "-")
    THEN PSigned(ts, i, PFactor(ts, i + 1))
    ELSE PPower(ts, i)

\* left, the operator ts[i] and the factor r, and the rest of the term
PTermStep(ts, left, i, r) ==
    IF ~r.ok THEN NoParse
    ELSE PTermLoop(ts,
                   IF ts[i].s = "//" THEN BadNode
                   ELSE <<"bin", ts[i].s, left, r.node>>,
                   r.pos)

\* term: factor (('*' | '/' | '//') factor)*
PTermLoop(ts, left, i) ==
    IF TokIs(ts, i, "*") \/ TokIs(ts, i, "/") \/ TokIs(ts, i, "//")
    THEN PTermStep(ts, left, i, PFactor(ts, i + 1))
    ELSE Parsed(left, i)

\* the term that starts with the factor f
PTermOf(ts, f) == IF f.ok THEN PTermLoop(ts, f.node, f.pos) ELSE NoParse

PTerm(ts, i) == PTermOf(ts, PFactor(ts, i))

\* left, the operator ts[i] and the term r, and the rest of the sum
PSumStep(ts, left, i, r) ==
    IF ~r.ok THEN NoParse
    ELSE PSumLoop(ts, <<"bin", ts[i].s, left, r.node>>, r.pos)

\* sum: term (('+' | '-') term)*
PSumLoop(ts, left, i) ==
    IF TokIs(ts, i, "+") \/ TokIs(ts, i, "-")
    THEN PSumStep(ts, left, i, PTerm(ts, i + 1))
    ELSE Parsed(left, i)

\* the sum that starts with the term t
PSumOf(ts, t) == IF t.ok THEN PSumLoop(ts, t.node, t.pos) ELSE NoParse

PSum(ts, i) == PSumOf(ts, PTerm(ts, i))

\* the whole of the tokens is one expression
PWhole(ts, p) == IF p.ok /\ p.pos = Len(ts) + 1 THEN p ELSE NoParse

\* the tree of the tokens lx
PTokens(lx) == IF ~lx.ok THEN NoParse ELSE PWhole(lx.toks, PSum(lx.toks, 1))

\* ast.parse(s, mode='eval'): the body of the Expression, or ok = FALSE on a
\* SyntaxError
AstParse(s) == PTokens(LexFrom(s, 1))

(* ------------------------------ safe_eval ------------------------------- *)

\* an outcome: st = "ok" with the value v, "zde" (ZeroDivisionError raised)
\* or "err" (ValueError raised)
Return(v) == [st |-> "ok", v |-> v]
Raise(st) == [st |-> st, v |-> MkInt(0)]

\* op.neg, op.pos
PyNeg(v) == IF v.t = "float" THEN FNeg(v) ELSE MkInt(-IntOf(v))
PyPos(v) == IF v.t = "float" THEN v ELSE MkInt(IntOf(v))

\* op.add, op.sub, op.mul, op.truediv
PyBinOp(op, a, b) ==
    IF op = "/"
    THEN IF IsZero(b) THEN Raise("zde")
         ELSE Return(FDiv(ToFloat(a), ToFloat(b)))
    ELSE IF IsIntLike(a) /\ IsIntLike(b)
    THEN Return(MkInt(IF op = "+" THEN IntOf(a) + IntOf(b)
                      ELSE IF op = "-" THEN IntOf(a) - IntOf(b)
                      ELSE IntOf(a) * IntOf(b)))
    ELSE Return(IF op = "+" THEN FAdd(ToFloat(a), ToFloat(b))
                ELSE IF op = "-" THEN FSub(ToFloat(a), ToFloat(b))
                ELSE FMul(ToFloat(a), ToFloat(b)))

\* _eval(node): the operands of a BinOp are evaluated left first, and the
\* first exception raised is the outcome
RECURSIVE Eval(_)
Eval(nd) ==
    IF nd[1] = "const" THEN Return(nd[2])
    ELSE IF nd[1] = "un"
    THEN LET x == Eval(nd[3]) IN
         IF x.st /= "ok" THEN x
         ELSE Return(IF nd[2] = "-" THEN PyNeg(x.v) ELSE PyPos(x.v))
    ELSE IF nd[1] = "bin"
    THEN LET l == Eval(nd[3]) IN
         IF l.st /= "ok" THEN l
         ELSE LET r == Eval(nd[4]) IN
              IF r.st /= "ok" THEN r ELSE PyBinOp(nd[2], l.v, r.v)
    ELSE Raise("err")

\* except ZeroDivisionError: return float('inf')
Caught(r) == IF r.st = "zde" THEN Return(Inf(FALSE)) ELSE r

\* _eval(node) of the parsed Expression p within the try block
EvalParsed(p) == IF ~p.ok THEN Raise("err") ELSE Caught(Eval(p.node))

\* safe_eval(expr): a value, or "err" for the ValueError it raises
SafeEval(s) == IF s = <<>> THEN Return(MkInt(0)) ELSE EvalParsed(AstParse(s))

(* ------------------------------ rate table ------------------------------ *)

\* the float m * 10^e
Flt(m, e) == Norm(FALSE, m, e)
One == Flt(1, 0)

\* a rate table: a function from currency codes to factors
EmptyTable == [c \in {} |-> One]
Put(t, c, v) == [x \in DOMAIN t \cup {c} |-> IF x = c THEN v ELSE t[x]]

\* the table the script falls back to when fetch_rates returns none
FallbackTable ==
    [c \in {"TWD", "USD", "JPY", "EUR", "CNY", "HKD"} |->
        IF c = "TWD" THEN One
        ELSE IF c = "USD" THEN Flt(325, -1)
        ELSE IF c = "JPY" THEN Flt(21, -2)
        ELSE IF c = "EUR" THEN Flt(35, 0)
        ELSE IF c = "CNY" THEN Flt(45, -1)
        ELSE Flt(41, -1)]

\* A price cell after _to_float: has = FALSE is None.
Price(has, x) == [has |-> has, x |-> x]
NoPrice == Price(FALSE, FZero(FALSE))
IsPositive(p) == p.has /\ p.x.k /= "nan" /\ ~p.x.neg /\ ~IsZero(p.x)

\* A row of the feed: code "" is a row without a recognizable code, raises
\* a row whose cells make the loop body raise.
Row(code, buy, sell, raises) ==
    [code |-> code, buy |-> buy, sell |-> sell, raises |-> raises]

\* the reference rate of a row: the mean of buy and sell, else the one given
RowVal(row) ==
    IF IsPositive(row.buy) /\ IsPositive(row.sell)
    THEN Price(TRUE, FDiv(FAdd(row.buy.x, row.sell.x), Flt(2, 0)))
    ELSE IF IsPositive(row.sell) THEN row.sell
    ELSE IF IsPositive(row.buy) THEN row.buy
    ELSE NoPrice

\* the loop over the rows handing back the rows read so far when a row
\* raises
RECURSIVE ParseRowsKeepingPartial(_, _, _)
ParseRowsKeepingPartial(rows, i, acc) ==
    IF i > Len(rows) \/ rows[i].raises THEN [ok |-> TRUE, rates |-> acc]
    ELSE IF rows[i].code = "" \/ ~RowVal(rows[i]).has
    THEN ParseRowsKeepingPartial(rows, i + 1, acc)
    ELSE ParseRowsKeepingPartial(rows, i + 1,
                                 Put(acc, rows[i].code, RowVal(rows[i]).x))

\* the loop over the rows: ok = FALSE when a row raises
RECURSIVE ParseRows(_, _, _)
ParseRows(rows, i, acc) ==
    IF i > Len(rows) THEN [ok |-> TRUE, rates |-> acc]
    ELSE IF rows[i].raises THEN [ok |-> FALSE, rates |-> acc]
    ELSE IF rows[i].code = "" \/ ~RowVal(rows[i]).has THEN ParseRows(rows, i + 1, acc)
    ELSE ParseRows(rows, i + 1, Put(acc, rows[i].code, RowVal(rows[i]).x))

\* fetch_rates() keeping the factor the feed gives for TWD
FetchRatesAsFed(feed) ==
    IF feed.status /= "ok" THEN [rates |-> EmptyTable, err |-> feed.status]
    ELSE LET r == ParseRows(feed.rows, 1, EmptyTable) IN
         IF ~r.ok THEN [rates |-> EmptyTable, err |-> "internal"]
         ELSE [rates |-> IF "TWD" \in DOMAIN r.rates THEN r.rates
                         ELSE Put(r.rates, "TWD", One),
               err |-> "none"]

\* fetch_rates() on a feed: status "ok" is a 200 response that parses as CSV
FetchRates(feed) ==
    IF feed.status /= "ok" THEN [rates |-> EmptyTable, err |-> feed.status]
    ELSE LET r == ParseRows(feed.rows, 1, EmptyTable) IN
         IF ~r.ok THEN [rates |-> EmptyTable, err |-> "internal"]
         ELSE [rates |-> Put(r.rates, "TWD", One), err |-> "none"]

\* the table a script run works with
RatesOfRun(feed) ==
    LET f == FetchRates(feed) IN
    IF DOMAIN f.rates = {} THEN FallbackTable ELSE f.rates

\* the feeds of the model: the bank unreachable, a response that is not
\* 200, a body that does not parse, a feed whose third row raises, and a
\* feed that lists TWD itself, a row without a code, a row giving both
\* prices, a row giving no positive price and a row giving only one
Feed(status, rows) == [status |-> status, rows |-> rows]
RowUSD == Row("USD", Price(TRUE, Flt(30, 0)), Price(TRUE, Flt(31, 0)), FALSE)
RowAUD == Row("AUD", NoPrice, Price(TRUE, Flt(20, 0)), FALSE)
RowNoCode == Row("", Price(TRUE, Flt(5, 0)), NoPrice, FALSE)
RowTWD == Row("TWD", Price(TRUE, Flt(2, 0)), Price(TRUE, Flt(2, 0)), FALSE)
RowEUR == Row("EUR", Price(TRUE, FZero(FALSE)), Price(TRUE, FNeg(Flt(35, 0))), FALSE)
RowRaising == Row("", NoPrice, NoPrice, TRUE)
FeedListingTWD == Feed("ok", <<RowTWD, RowNoCode, RowUSD, RowEUR, RowAUD>>)
FeedRaising == Feed("ok", <<RowUSD, RowAUD, RowRaising>>)
Feeds ==
    { Feed("neterr", <<>>),
      Feed("http", <<>>),
      Feed("badcsv", <<>>),
      FeedRaising,
      FeedListingTWD }

(* --------------------------- session state ------------------------------ *)

VARIABLES
    expr,       \* st.session_state.expr
    last,       \* st.session_state.last
    memory,     \* st.session_state.memory
    selected,   \* st.session_state.selected
    displayed,  \* st.session_state.displayed
    rates,      \* the table of the latest script run, which the callbacks read
    err,        \* the error the latest callback reported with st.error
    op,         \* the latest callback
    ret,        \* the outcome of the latest direct call of safe_eval
    left        \* how many more callbacks the session runs

vars == <<expr, last, memory, selected, displayed, rates, err, op, ret, left>>

\* the keys of the model
Keys == {"0", "1", "/"}

DefaultDisplayed == <<"TWD", "USD", "JPY", "EUR", "CNY">>

\* ret before any direct call of safe_eval
NoCall == [st |-> "none", v |-> MkInt(0)]

Init ==
    /\ expr = <<>>
    /\ last = FZero(FALSE)
    /\ memory = FZero(FALSE)
    /\ displayed = DefaultDisplayed
    /\ selected = "TWD"
    /\ rates \in {RatesOfRun(f) : f \in Feeds}
    /\ err = "none"
    /\ op = "init"
    /\ ret = NoCall
    /\ left = MaxSteps

\* rates.get(code, 1.0)
RateOrOne(code) == IF code \in DOMAIN rates THEN rates[code] ELSE One

\* v != 0
NonZero(v) == ~IsZero(v)

\* one more callback of a session of bounded length
Tick == left > 0 /\ left' = left - 1

(* ------------------------------ callbacks ------------------------------- *)

press(ch) ==
    /\ Tick
    /\ expr' = Append(expr, ch)
    /\ err' = "none"
    /\ op' = "press"
    /\ UNCHANGED <<last, memory, selected, displayed, rates, ret>>

backspace ==
    /\ Tick
    /\ expr' = SubSeq(expr, 1, Len(expr) - 1)
    /\ err' = "none"
    /\ op' = "backspace"
    /\ UNCHANGED <<last, memory, selected, displayed, rates, ret>>

\* clear_all clearing the memory as well
ClearEverything ==
    /\ Tick
    /\ expr' = <<>>
    /\ last' = FZero(FALSE)
    /\ memory' = FZero(FALSE)
    /\ err' = "none"
    /\ op' = "clear_all"
    /\ UNCHANGED <<selected, displayed, rates, ret>>

clear_all ==
    /\ Tick
    /\ expr' = <<>>
    /\ last' = FZero(FALSE)
    /\ err' = "none"
    /\ op' = "clear_all"
    /\ UNCHANGED <<memory, selected, displayed, rates, ret>>

\* re.sub(r'[^0-9+\-*/().]', '', s)
Clean(s) == SelectSeq(s, LAMBDA c : c \in Digits \cup OpChars)

\* Stored with a failed evaluation resetting the result, as the empty
\* Expression does
StoredOrReset(r) ==
    IF r.st = "ok"
    THEN /\ last' = ToFloat(r.v)
         /\ expr' = StrFloat(ToFloat(r.v))
         /\ err' = "none"
    ELSE /\ last' = FZero(FALSE)
         /\ UNCHANGED expr
         /\ err' = "ValueError"

\* the try block of do_calculate, r the outcome of safe_eval(s_clean)
Stored(r) ==
    IF r.st = "ok"
    THEN /\ last' = ToFloat(r.v)
         /\ expr' = StrFloat(ToFloat(r.v))
         /\ err' = "none"
    ELSE /\ UNCHANGED <<last, expr>>
         /\ err' = "ValueError"

\* the body of do_calculate
Calculate ==
    IF expr = <<>>
    THEN /\ last' = FZero(FALSE)
         /\ UNCHANGED expr
         /\ err' = "none"
    ELSE Stored(SafeEval(Clean(expr)))

do_calculate ==
    /\ Tick
    /\ Calculate
    /\ op' = "do_calculate"
    /\ UNCHANGED <<memory, selected, displayed, rates, ret>>

\* the try block of toggle_sign, r the outcome of safe_eval(expr)
Negated(r) ==
    IF r.st /= "ok" THEN expr' = Append(expr, "-") /\ UNCHANGED last
    ELSE IF IsZero(r.v) THEN UNCHANGED <<expr, last>>
    ELSE expr' = PyStr(PyNeg(r.v)) /\ last' = PyNeg(r.v)

toggle_sign ==
    /\ Tick
    /\ IF expr = <<>> THEN expr' = <<"-">> /\ UNCHANGED last
       ELSE Negated(SafeEval(expr))
    /\ err' = "none"
    /\ op' = "toggle_sign"
    /\ UNCHANGED <<memory, selected, displayed, rates, ret>>

\* a * b and a / b of Python numbers, b a float that is not zero
Times(a, b) == FMul(ToFloat(a), b)
Over(a, b) == FDiv(ToFloat(a), b)

\* val_twd taking the amount as it is shown, without the factor
ValTwdUnconverted(l) == ToFloat(l)

\* val_twd of memory_add and memory_subtract, l the last result that the
\* do_calculate they start with has left
ValTwd(l) == Times(l, RateOrOne(selected))

memory_add ==
    /\ Tick
    /\ Calculate
    /\ memory' = FAdd(memory, ValTwd(last'))
    /\ op' = "memory_add"
    /\ UNCHANGED <<selected, displayed, rates, ret>>

memory_subtract ==
    /\ Tick
    /\ Calculate
    /\ memory' = FSub(memory, ValTwd(last'))
    /\ op' = "memory_subtract"
    /\ UNCHANGED <<selected, displayed, rates, ret>>

\* recalled of memory_recall
Recalled == Over(memory, RateOrOne(selected))

memory_recall ==
    /\ Tick
    /\ expr' = StrFloat(Recalled)
    /\ last' = Recalled
    /\ err' = "none"
    /\ op' = "memory_recall"
    /\ UNCHANGED <<memory, selected, displayed, rates, ret>>

memory_clear ==
    /\ Tick
    /\ memory' = FZero(FALSE)
    /\ err' = "none"
    /\ op' = "memory_clear"
    /\ UNCHANGED <<expr, last, selected, displayed, rates, ret>>

\* whether handle_currency_switch(code, prev_code) converts the amount
Converts(code, prev_code) ==
    NonZero(last) /\ prev_code \in DOMAIN rates /\ code \in DOMAIN rates

\* val_target with the two factors taken the other way round
ValTargetTheOtherWay(code, prev_code) ==
    Over(Times(last, rates[code]), rates[prev_code])

\* val_target leaving out the factor of the code that was selected
ValTargetFromBase(code, prev_code) == Over(last, rates[code])

\* val_target of handle_currency_switch
ValTarget(code, prev_code) == Over(Times(last, rates[prev_code]), rates[code])

\* handle_currency_switch converting the memory along with the amount
SwitchConvertingMemory(code, prev_code) ==
    /\ Tick
    /\ IF Converts(code, prev_code)
       THEN /\ last' = ValTarget(code, prev_code)
            /\ expr' = StrFloat(ValTarget(code, prev_code))
            /\ memory' = Over(Times(memory, rates[prev_code]), rates[code])
       ELSE UNCHANGED <<last, expr, memory>>
    /\ selected' = code
    /\ err' = "none"
    /\ op' = "handle_currency_switch"
    /\ UNCHANGED <<displayed, rates, ret>>

\* handle_currency_switch returning before it selects the code when it
\* converts nothing
SwitchReturningEarly(code, prev_code) ==
    /\ Tick
    /\ IF Converts(code, prev_code)
       THEN /\ last' = ValTarget(code, prev_code)
            /\ expr' = StrFloat(ValTarget(code, prev_code))
            /\ selected' = code
       ELSE UNCHANGED <<last, expr, selected>>
    /\ err' = "none"
    /\ op' = "handle_currency_switch"
    /\ UNCHANGED <<memory, displayed, rates, ret>>

handle_currency_switch(code, prev_code) ==
    /\ Tick
    /\ IF Converts(code, prev_code)
       THEN /\ last' = ValTarget(code, prev_code)
            /\ expr' = StrFloat(ValTarget(code, prev_code))
       ELSE UNCHANGED <<last, expr>>
    /\ selected' = code
    /\ err' = "none"
    /\ op' = "handle_currency_switch"
    /\ UNCHANGED <<memory, displayed, rates, ret>>

\* the code of the i-th button of the currency row, i in 1..5
ButtonCode(i) == IF i <= Len(displayed) THEN displayed[i] ELSE "TWD"

\* a press of the i-th currency button: its arguments were bound when the
\* row was drawn, (code, st.session_state.selected)
SwitchCurrency(i) == handle_currency_switch(ButtonCode(i), selected)

(* ----------------------- the shortcut row setting ----------------------- *)

InSeq(c, q) == \E i \in 1..Len(q) : q[i] = c

\* for c in sel: if c != 'TWD' and len(final_list) < 5: final_list.append(c)
RECURSIVE TakeSelected(_, _, _)
TakeSelected(sel, i, acc) ==
    IF i > Len(sel) THEN acc
    ELSE TakeSelected(sel, i + 1,
                      IF sel[i] /= "TWD" /\ Len(acc) < 5 THEN Append(acc, sel[i])
                      ELSE acc)

Popular == <<"USD", "JPY", "EUR", "CNY", "HKD">>

\* the loop that fills the row up with the popular codes of the table
RECURSIVE FillUp(_, _, _)
FillUp(all, i, acc) ==
    IF i > Len(Popular) THEN acc
    ELSE LET a == IF ~InSeq(Popular[i], acc) /\ Popular[i] \in all
                  THEN Append(acc, Popular[i]) ELSE acc
         IN  IF Len(a) >= 5 THEN a ELSE FillUp(all, i + 1, a)

\* final_list of the "update" button for the codes picked in the multiselect
FinalList(sel, all) ==
    LET first == IF InSeq("TWD", sel) THEN <<"TWD">> ELSE <<>>
        taken == TakeSelected(sel, 1, first)
    IN  IF Len(taken) < 5 THEN FillUp(all, 1, taken) ELSE taken

\* the picks of the model: none, or the last code of the table
Selections(all) == {<<>>} \cup {<<c>> : c \in {"AUD", "HKD"} \cap all}

update_display ==
    /\ Tick
    /\ \E sel \in Selections(DOMAIN rates) :
           displayed' = FinalList(sel, DOMAIN rates)
    /\ err' = "none"
    /\ op' = "update_display"
    /\ UNCHANGED <<expr, last, memory, selected, rates, ret>>

\* A script run that really fetches: the cached table has expired, or the
\* "force refresh" button cleared the cache.
reload ==
    /\ Tick
    /\ \E f \in Feeds : rates' = RatesOfRun(f)
    /\ err' = "none"
    /\ op' = "reload"
    /\ UNCHANGED <<expr, last, memory, selected, displayed, ret>>

\* A direct call of safe_eval on the Expression.
safe_eval_call ==
    /\ Tick
    /\ ret' = SafeEval(expr)
    /\ err' = "none"
    /\ op' = "safe_eval"
    /\ UNCHANGED <<expr, last, memory, selected, displayed, rates>>

(* --------------------------- specifications ----------------------------- *)

\* A session from its first script run: every callback of the page.
Next ==
    \/ \E ch \in Keys : press(ch)
    \/ backspace
    \/ clear_all
    \/ toggle_sign
    \/ do_calculate
    \/ memory_add
    \/ memory_subtract
    \/ memory_recall
    \/ memory_clear
    \/ \E i \in 1..5 : SwitchCurrency(i)
    \/ update_display
    \/ reload

Spec == Init /\ [][Next]_vars

\* safe_eval and do_calculate as functions of their input: the Expression
\* is any string of up to MaxLen of these characters.
EvalChars == {"0", "5", "/", "-", ".", "(", ")", "e", "T", "r", "u"}

RECURSIVE Strings(_)
Strings(n) ==
    IF n = 0 THEN {<<>>}
    ELSE LET shorter == Strings(n - 1) IN
         shorter \cup {Append(w, c) : w \in shorter, c \in EvalChars}

InitEval ==
    /\ expr \in Strings(MaxLen)
    /\ last = FZero(FALSE)
    /\ memory = FZero(FALSE)
    /\ displayed = DefaultDisplayed
    /\ selected = "TWD"
    /\ rates = RatesOfRun(Feed("neterr", <<>>))
    /\ err = "none"
    /\ op = "init"
    /\ ret = NoCall
    /\ left = MaxEvalSteps

NextEval ==
    \/ safe_eval_call
    \/ do_calculate

SpecEval == InitEval /\ [][NextEval]_vars

(* ---------------- the grammar the Expression is measured by -------------- *)
(*   expr   := term (('+' | '-') term)*                                      *)
(*   term   := factor (('*' | '/') factor)*                                  *)
(*   factor := ('+' | '-')? (number | '(' expr ')')                          *)
(*   number := digits ('.' digits)?                                          *)
(* A parse gives the value of standard infix evaluation, computed with the   *)
(* arithmetic of Python numbers, and whether a divisor was zero.             *)

GOk(v, zde, pos) == [ok |-> TRUE, v |-> v, zde |-> zde, pos |-> pos]
GNo == [ok |-> FALSE, v |-> MkInt(0), zde |-> FALSE, pos |-> 0]

RECURSIVE GExpr(_, _)
RECURSIVE GExprLoop(_, _)
RECURSIVE GTerm(_, _)
RECURSIVE GTermLoop(_, _)
RECURSIVE GFactor(_, _)

\* digits from i to j - 1, and the digits of a fraction from j + 1 to k - 1
GNumberOf(s, i, j, k) ==
    IF j = i THEN GNo
    ELSE IF k > j + 1
    THEN GOk(DigitsToFloat(SubSeq(s, i, j - 1) \o SubSeq(s, j + 1, k - 1),
                           -(k - j - 1)), FALSE, k)
    ELSE GOk(MkInt(DigitsToNat(SubSeq(s, i, j - 1))), FALSE, j)

GFraction(s, i, j) ==
    GNumberOf(s, i, j, IF At(s, j) = "." THEN SpanDigits(s, j + 1) ELSE j)

GNumber(s, i) == GFraction(s, i, SpanDigits(s, i))

GClose(s, e) ==
    IF e.ok /\ At(s, e.pos) = ")" THEN [e EXCEPT !.pos = e.pos + 1] ELSE GNo

GPrimary(s, i) ==
    IF At(s, i) = "(" THEN GClose(s, GExpr(s, i + 1)) ELSE GNumber(s, i)

GSigned(sign, f) ==
    IF ~f.ok THEN GNo
    ELSE [f EXCEPT !.v = IF sign = "-" THEN PyNeg(f.v) ELSE PyPos(f.v)]

GFactor(s, i) ==
    IF At(s, i) \in {"+", "-"} THEN GSigned(At(s, i), GPrimary(s, i + 1))
    ELSE GPrimary(s, i)

GResult(r, pos) ==
    IF r.st = "ok" THEN GOk(r.v, FALSE, pos) ELSE GOk(MkInt(0), TRUE, pos)

\* a op b, where a divisor that is zero leaves no value
GApply(bop, a, b) ==
    IF a.zde \/ b.zde THEN GOk(MkInt(0), TRUE, b.pos)
    ELSE GResult(PyBinOp(bop, a.v, b.v), b.pos)

GTermStep(s, lhs, r) ==
    IF ~r.ok THEN GNo ELSE GTermLoop(s, GApply(At(s, lhs.pos), lhs, r))

GTermLoop(s, lhs) ==
    IF At(s, lhs.pos) \in {"*", "/"}
    THEN GTermStep(s, lhs, GFactor(s, lhs.pos + 1))
    ELSE lhs

GTermOf(s, f) == IF f.ok THEN GTermLoop(s, f) ELSE GNo

GTerm(s, i) == GTermOf(s, GFactor(s, i))

GExprStep(s, lhs, r) ==
    IF ~r.ok THEN GNo ELSE GExprLoop(s, GApply(At(s, lhs.pos), lhs, r))

GExprLoop(s, lhs) ==
    IF At(s, lhs.pos) \in {"+", "-"}
    THEN GExprStep(s, lhs, GTerm(s, lhs.pos + 1))
    ELSE lhs

GExprOf(s, t) == IF t.ok THEN GExprLoop(s, t) ELSE GNo

GExpr(s, i) == GExprOf(s, GTerm(s, i))

GWhole(s, e) == IF e.ok /\ e.pos = Len(s) + 1 THEN e ELSE GNo

GParse(s) == GWhole(s, GExpr(s, 1))

\* s is a sentence of the grammar
Sentence(s) == GParse(s).ok

\* s is a sentence in which a divisor evaluates to zero
DividesByZero(s) == GParse(s).ok /\ GParse(s).zde

\* the value of the sentence s
Value(s) == IF GParse(s).zde THEN Inf(FALSE) ELSE GParse(s).v

\* a and b are the same amount up to the rounding of a division and a
\* multiplication: they differ by less than ten units in the last place
SameAmount(a, b) ==
    IF a.k /= "fin" \/ b.k /= "fin"
    THEN a.k = b.k /\ (a.k = "inf" => a.neg = b.neg)
    ELSE \/ IsZero(FSub(a, b))
         \/ Top(FSub(a, b)) <= Top(b) - PREC + 1

(* -------------------------------- claims -------------------------------- *)

\* C1: memory is currency-switch-invariant.  A currency switch never changes
\* the stored memory, and a recall while a currency of the table is selected
\* gives an amount whose TWD equivalent is the memory (up to rounding),
\* whichever currency switches came before it: so an amount added under A
\* and recalled after a switch to B is worth in TWD what it is worth when
\* recalled without the switch.
C1_MemorySwitchInvariant ==
    [][ /\ op' = "handle_currency_switch" => memory' = memory
        /\ (op' = "memory_recall" /\ selected \in DOMAIN rates)
           => SameAmount(Times(last', rates[selected]), memory) ]_vars

\* an amount was added to memory, the currency switched, the memory recalled
C1_Witness ==
    /\ op = "memory_recall"
    /\ selected /= "TWD"
    /\ selected \in DOMAIN rates
    /\ NonZero(memory)
    /\ NonZero(last)

\* C2: in every reachable state the selected currency code is a key of the
\* current rate table.
C2_SelectedInTable == selected \in DOMAIN rates

\* C3: a do_calculate whose evaluation fails reports the error and leaves
\* last, the Expression, memory and selected as they were.
C3_FailedCalculateFrame ==
    [][ (op' = "do_calculate" /\ expr /= <<>> /\ SafeEval(Clean(expr)).st = "err")
        => (err' = "ValueError" /\ UNCHANGED <<last, expr, memory, selected>>) ]_vars

\* a do_calculate failed while there was a result to lose
C3_Witness ==
    /\ op = "do_calculate"
    /\ err = "ValueError"
    /\ NonZero(last)

\* C4: Calculate is idempotent.  A do_calculate that follows a successful
\* do_calculate, with no other callback in between, leaves last and the
\* Expression unchanged.
C4_CalculateIdempotent ==
    [][ (op = "do_calculate" /\ err = "none" /\ op' = "do_calculate")
        => UNCHANGED <<last, expr>> ]_vars

\* C5: every sentence of the grammar evaluates to its standard infix value,
\* by safe_eval called on it and by do_calculate run on it as the Expression.
C5_SentencesEvaluate ==
    [][ /\ (op' = "safe_eval" /\ Sentence(expr))
           => ret' = Return(Value(expr))
        /\ (op' = "do_calculate" /\ Sentence(expr))
           => (err' = "none" /\ last' = ToFloat(Value(expr))) ]_vars

\* C6: the evaluator is a strict allow-list.  safe_eval returns a number for
\* a string that is not empty only if the string is a sentence of the
\* grammar; any other string fails with ValueError.
C6_StrictAllowList ==
    (op = "safe_eval" /\ expr /= <<>> /\ ret.st = "ok") => Sentence(expr)

\* C7: garbage is never coerced into a result.  A do_calculate on an
\* Expression that is not empty and not a sentence of the grammar reports the
\* error and does not set last.
C7_GarbageNotCoerced ==
    [][ (op' = "do_calculate" /\ expr /= <<>> /\ ~Sentence(expr))
        => (err' = "ValueError" /\ last' = last) ]_vars

\* C8: division by zero is a distinct outcome.  For every sentence in which
\* a divisor evaluates to zero safe_eval returns positive infinity and raises
\* nothing, and do_calculate stores it in last without reporting an error.
C8_DivisionByZeroOutcome ==
    [][ /\ (op' = "safe_eval" /\ DividesByZero(expr))
           => ret' = Return(Inf(FALSE))
        /\ (op' = "do_calculate" /\ DividesByZero(expr))
           => (err' = "none" /\ last' = Inf(FALSE)) ]_vars

\* C9: no conversion uses a default factor of 1 for a missing code.  While
\* the selected code is not a key of the rate table, memory_add and
\* memory_subtract do not change the memory and memory_recall does not
\* recall the memory as if the factor were 1.0; a switch from or to a code
\* that is not a key converts nothing.
C9_NoDefaultFactor ==
    [][ /\ (op' \in {"memory_add", "memory_subtract"} /\ selected \notin DOMAIN rates)
           => memory' = memory
        /\ (op' = "memory_recall" /\ selected \notin DOMAIN rates /\ NonZero(memory))
           => last' /= Over(memory, One)
        /\ \A i \in 1..5 :
             (SwitchCurrency(i) /\ (selected \notin DOMAIN rates
                                    \/ ButtonCode(i) \notin DOMAIN rates))
             => UNCHANGED <<last, expr>> ]_vars

\* C10: handle_currency_switch(code, prev_code) always ends with selected =
\* code; when last is zero, or prev_code or code is not a key of the rate
\* table, it leaves last, the Expression and memory as they were.
C10_SwitchSelectsAndFrames ==
    [][ \A i \in 1..5 :
          SwitchCurrency(i)
          => /\ selected' = ButtonCode(i)
             /\ (IsZero(last) \/ selected \notin DOMAIN rates
                 \/ ButtonCode(i) \notin DOMAIN rates)
                => UNCHANGED <<last, expr, memory>> ]_vars

\* a switch to a code that the table lacks, with an amount on display
C10_Witness ==
    /\ op = "handle_currency_switch"
    /\ selected \notin DOMAIN rates
    /\ NonZero(last)
    /\ expr /= <<>>

C12_RoundTrip ==
    [][ \A i \in 1..5 :
            (SwitchCurrency(i) /\ Converts(ButtonCode(i), selected))
            => \E a \in {selected}, b \in {ButtonCode(i)} :
                   /\ selected' = b
                   /\ rates' = rates
                   /\ NonZero(last')
                   /\ SameAmount(FDiv(FMul(ToFloat(last'), rates[b]), rates[a]),
                                 ToFloat(last)) ]_vars

\* the amount 1 taken from TWD into another currency and back
C12_Witness ==
    /\ op = "handle_currency_switch"
    /\ selected = "TWD"
    /\ last = One
    /\ expr = StrFloat(One)
    /\ left <= MaxSteps - 4

\* C13: with the selected code C in the table, memory_add whose calculate
\* step succeeds adds the amount on display times table[C] to the memory
\* and memory_subtract takes it away; memory_recall sets last to memory /
\* table[C] and the Expression to its string and leaves the memory;
\* memory_clear sets the memory to 0 and leaves last, the Expression and
\* the selected code.
C13_MemoryInBaseUnits ==
    [][ /\ (op' = "memory_add" /\ selected \in DOMAIN rates /\ err' = "none")
            => memory' = FAdd(memory, FMul(ToFloat(last'), rates[selected]))
        /\ (op' = "memory_subtract" /\ selected \in DOMAIN rates /\ err' = "none")
            => memory' = FSub(memory, FMul(ToFloat(last'), rates[selected]))
        /\ (op' = "memory_recall" /\ selected \in DOMAIN rates)
            => /\ last' = FDiv(memory, rates[selected])
               /\ expr' = StrFloat(last')
               /\ memory' = memory
        /\ (op' = "memory_clear")
            => /\ memory' = FZero(FALSE)
               /\ UNCHANGED <<last, expr, selected>> ]_vars

\* an amount added to the memory while a currency other than TWD, with a
\* factor other than 1, is selected
C13_Witness ==
    /\ op = "memory_add"
    /\ err = "none"
    /\ selected = "USD"
    /\ "USD" \in DOMAIN rates
    /\ NonZero(last)
    /\ memory = FMul(ToFloat(last), rates["USD"])

\* a factor that is a float above zero
PositiveFactor(v) == v.k /= "nan" /\ ~v.neg /\ ~IsZero(v)

\* the property of C14 for a table t
BaseIsOne(t) ==
    /\ "TWD" \in DOMAIN t
    /\ t["TWD"] = One
    /\ \A c \in DOMAIN t : PositiveFactor(t[c])

\* C14: the rate table of every script run holds TWD with the factor 1.0
\* and a factor above zero for every other code, whether the fetch
\* succeeded, failed before the rows were read or while they were read, or
\* the feed listed TWD itself.
C14_BaseIsOne == BaseIsOne(rates) /\ \A f \in Feeds : BaseIsOne(RatesOfRun(f))

\* a script run working with the table of the feed that lists TWD at 2
C14_Witness ==
    /\ op = "reload"
    /\ FeedListingTWD \in Feeds
    /\ rates = RatesOfRun(FeedListingTWD)
    /\ "USD" \in DOMAIN rates
    /\ "EUR" \notin DOMAIN rates

\* a fetch of the feed f fails: no 200 response that parses, or a row that
\* raises while it is read
FeedFails(f) == f.status /= "ok" \/ \E i \in DOMAIN f.rows : f.rows[i].raises

\* the rows of the feed f that give the code c a positive price
RowsFor(f, c) ==
    {i \in DOMAIN f.rows : f.rows[i].code = c /\ RowVal(f.rows[i]).has}

\* the complete table of the feed f: TWD at 1.0 and, for every other code
\* with a priced row, the value of its last such row
CompleteTable(f) ==
    [c \in {"TWD"} \cup {f.rows[i].code : i \in {k \in DOMAIN f.rows :
                             f.rows[k].code /= "" /\ RowVal(f.rows[k]).has}} |->
        IF c = "TWD" THEN One
        ELSE RowVal(f.rows[CHOOSE i \in RowsFor(f, c) :
                               \A k \in RowsFor(f, c) : k <= i]).x]

\* C15: the table of a script run is the complete static table when the
\* fetch fails, an error raised after some rows were read included, and
\* the complete table of the feed when it succeeds; never a part of either.
C15_WholesaleReplacement ==
    /\ \A f \in Feeds :
           RatesOfRun(f) = IF FeedFails(f) THEN FallbackTable
                           ELSE CompleteTable(f)
    /\ rates \in {FallbackTable}
                 \cup {CompleteTable(f) : f \in {g \in Feeds : ~FeedFails(g)}}

\* a script run that fell back to the static table, with a feed whose row
\* loop raises after two rows were stored
C15_Witness ==
    /\ op = "reload"
    /\ rates = FallbackTable
    /\ FeedRaising \in Feeds
    /\ ParseRows(FeedRaising.rows, 1, EmptyTable).rates /= EmptyTable
    /\ RatesOfRun(FeedRaising) = rates

\* C16: toggle_sign on the empty Expression sets it to "-"; on an
\* Expression that evaluates to v, zero included, it replaces the
\* Expression by the string of -v.
C16_ToggleSignNegates ==
    [][ op' = "toggle_sign"
        => IF expr = <<>> THEN expr' = <<"-">>
           ELSE SafeEval(expr).st = "ok"
                => expr' = PyStr(PyNeg(SafeEval(expr).v)) ]_vars

\* the characters of a numeric token, and the trailing numeric token of s:
\* the last run of such characters, from TokenStart(s) to TokenEnd(s)
NumberChars == Digits \cup {"."}
HasNumber(s) == \E i \in DOMAIN s : s[i] \in NumberChars
TokenEnd(s) ==
    CHOOSE i \in DOMAIN s :
        s[i] \in NumberChars /\ \A k \in DOMAIN s : s[k] \in NumberChars => k <= i
TokenStart(s) ==
    CHOOSE i \in 1..TokenEnd(s) :
        /\ \A k \in i..TokenEnd(s) : s[k] \in NumberChars
        /\ i > 1 => s[i - 1] \notin NumberChars

\* s with the sign of its trailing numeric token toggled, or with "-" in
\* front when it holds no numeric token
ToggledText(s) ==
    IF ~HasNumber(s) THEN <<"-">> \o s
    ELSE IF TokenStart(s) > 1 /\ s[TokenStart(s) - 1] = "-"
    THEN SubSeq(s, 1, TokenStart(s) - 2) \o SubSeq(s, TokenStart(s), Len(s))
    ELSE SubSeq(s, 1, TokenStart(s) - 1) \o <<"-">>
         \o SubSeq(s, TokenStart(s), Len(s))

\* C17: toggle_sign on an Expression that does not evaluate toggles the
\* sign of the trailing numeric token of the text, or puts "-" in front
\* when there is none, and leaves last, the memory and the selected code.
C17_ToggleSignTextFallback ==
    [][ (op' = "toggle_sign" /\ expr /= <<>> /\ SafeEval(expr).st /= "ok")
        => /\ expr' = ToggledText(expr)
           /\ UNCHANGED <<last, memory, selected>> ]_vars

\* C18: clear_all empties the Expression, sets last to 0 and leaves the
\* memory and the selected code; backspace removes the last character of
\* the Expression, none when it is empty, and leaves last, the memory and
\* the selected code.
C18_ClearAndBackspace ==
    [][ /\ op' = "clear_all"
            => /\ expr' = <<>>
               /\ last' = FZero(FALSE)
               /\ UNCHANGED <<memory, selected>>
        /\ op' = "backspace"
            => /\ expr' = IF expr = <<>> THEN <<>>
                          ELSE SubSeq(expr, 1, Len(expr) - 1)
               /\ UNCHANGED <<last, memory, selected>> ]_vars

\* clear_all with an amount in the memory and a code other than TWD
\* selected
C18_Witness ==
    /\ op = "clear_all"
    /\ NonZero(memory)
    /\ selected /= "TWD"
    /\ expr = <<>>
    /\ IsZero(last)

\* C19: memory_add and memory_subtract whose calculate step fails leave
\* the memory as it was.
C19_FailedCalculateKeepsMemory ==
    [][ (op' \in {"memory_add", "memory_subtract"} /\ err' = "ValueError")
        => memory' = memory ]_vars

====
